---- MODULE Spec2Model ----
(***************************************************************************)
(* Model of freediscovery/server/resources.py: the REST resources that     *)
(* drive feature extraction (FeaturesApi, FeaturesApiElement) and the      *)
(* model life cycle (ModelsApi, ClusteringApiElement, DupDetectionApi...). *)
(*                                                                         *)
(* Real numbers (min_df, max_df, EPSILON) are fixed-point integers in      *)
(* units of 1/ONE.  A Python value that may be a float or an int is a      *)
(* record [type, fx].                                                      *)
(***************************************************************************)
EXTENDS Integers, FiniteSets, Sequences, TLC

\* ------------------------------------------------------------------ bounds
MaxDsid == 2
MaxChunkSize == 2
MaxSamples == 3
MaxChunks == 2
NReaders == 2
MaxMid == 2

DSIDS == 1..MaxDsid
READERS == 1..NReaders
MIDS == 1..MaxMid

\* --------------------------------------------------------------- constants
\* the literal 1. of line 72, in fixed-point units
ONE == 10000
\* EPSILON = 1e-3
EPSILON == ONE \div 1000

VARIABLES
    fs,         \* dsid -> the dataset directory: markers, chunk artifacts, parameters
    wpc,        \* dsid -> position of the background extraction of that dsid
    nextDsid,   \* next dataset identifier to hand out
    rd,         \* reader -> position and locals of a FeaturesApiElement.get in flight
    seen200,    \* dsids for which some status query has returned 200
    lastResp,   \* the response the last completed handler returned
    req,        \* arguments of the last FeaturesApi.post
    handed,     \* keyword arguments that post handed to FeatureVectorizer.preprocess
    models,     \* mid -> the model directory
    nextMid,    \* next model identifier to hand out
    deleted,    \* <<namespace, id>> pairs a delete handler has removed
    calls       \* collaborator calls made by the last ModelsApi.post

vars == <<fs, wpc, nextDsid, rd, seen200, lastResp, req, handed,
          models, nextMid, deleted, calls>>

statusVars == <<fs, wpc, nextDsid, rd, seen200>>
preprocVars == <<req, handed>>
modelVars == <<models, nextMid, deleted, calls>>

Min(a, b) == IF a < b THEN a ELSE b

\* ----------------------------------------------------------- python values
PyFloat(v) == [type |-> "float", fx |-> v]
PyInt(n) == [type |-> "int", fx |-> n * ONE]
\* int(x): truncation toward zero
PyIntOf(x) == [type |-> "int",
               fx |-> IF x.fx >= 0 THEN (x.fx \div ONE) * ONE
                      ELSE 0 - (((0 - x.fx) \div ONE) * ONE)]
PyNone == "<None>"

DelKey(a, key) == [k \in (DOMAIN a) \ {key} |-> a[k]]
SetKey(a, key, v) == [k \in (DOMAIN a) \cup {key} |-> IF k = key THEN v ELSE a[k]]

\* ------------------------------------------------------- dataset directory
NoDataset == [exists |-> FALSE, processing |-> FALSE, processing_finished |-> FALSE,
              n_chunks |-> 0, chunk_size |-> 1, n_samples |-> 1, compacted |-> FALSE]

NewDataset(cs, n) == [exists |-> TRUE, processing |-> FALSE, processing_finished |-> FALSE,
                      n_chunks |-> 0, chunk_size |-> cs, n_samples |-> n, compacted |-> FALSE]

\* fe.get_params(): the stored parameters of the dataset
GetParams(d) == [id |-> d, chunk_size |-> fs[d].chunk_size, n_samples |-> fs[d].n_samples]

NoResp == [op |-> "none", code |-> 0]

NoModel == [kind |-> "none", alive |-> FALSE]
NoCalls == [train |-> 0, predict |-> 0, score |-> 0]

IdleReader == [pc |-> "idle", dsid |-> 0, is_processing |-> FALSE, is_finished |-> FALSE,
               after200 |-> FALSE, in_extraction |-> FALSE, wasDeleted |-> FALSE]


\* ============================================================= FeaturesApi
DfKeys == {"min_df", "max_df"}
BaseKeys == {"use_idf", "norm", "use_hashing", "chunk_size"}

\* document-frequency values a request can carry: fractions, the values
\* around 1 and 1 + EPSILON, and absolute counts
DfValues == {0, ONE \div 2, ONE, ONE + (EPSILON \div 2), ONE + EPSILON,
             ONE + EPSILON + 1, ONE + (ONE \div 2), 2 * ONE, 50 * ONE}

\* the keyword arguments FeaturesParsSchema delivers to post
Request(ui, nm, uh, cs, keys, mn, mx) ==
    [k \in BaseKeys \cup keys |->
        CASE k = "use_idf" -> ui
          [] k = "norm" -> nm
          [] k = "use_hashing" -> uh
          [] k = "chunk_size" -> cs
          [] k = "min_df" -> PyFloat(mn)
          [] k = "max_df" -> PyFloat(mx)]

Requests == { Request(ui, nm, uh, 1, keys, mn, mx) :
                ui \in {0, 1}, nm \in {"l2", "None"}, uh \in BOOLEAN,
                keys \in SUBSET DfKeys, mn \in DfValues, mx \in DfValues }

\* requests used to start the extractions whose progress is followed
ExtractionRequests == { Request(1, "l2", TRUE, MaxChunkSize, {}, 0, 0) }

NoArgs == Request(0, "l2", FALSE, 1, {}, 0, 0)

\* line 64
NormalizeUseIdf(args) == SetKey(args, "use_idf", args["use_idf"] > 0)

\* lines 65-66
NormalizeNorm(args) ==
    IF args["norm"] = "None" THEN SetKey(args, "norm", PyNone) ELSE args

\* lines 69-70, for one key
DropKey(args, key) == IF key \in DOMAIN args THEN DelKey(args, key) ELSE args

\* lines 67-70 with the loop of line 68 running over min_df alone
DropDfWhenHashing_MinOnly(args) ==
    IF args["use_hashing"] THEN DropKey(args, "min_df") ELSE args

\* lines 67-70
DropDfWhenHashing(args) ==
    IF args["use_hashing"] THEN DropKey(DropKey(args, "min_df"), "max_df") ELSE args

\* lines 72-73 with the comparison of line 72 against 1. alone
CoerceDf_NoEpsilon(args, key) ==
    IF key \in DOMAIN args /\ args[key].fx > ONE
    THEN SetKey(args, key, PyIntOf(args[key]))
    ELSE args

\* lines 72-73, for one key
CoerceDf(args, key) ==
    IF key \in DOMAIN args /\ args[key].fx > ONE + EPSILON
    THEN SetKey(args, key, PyIntOf(args[key]))
    ELSE args

\* lines 71-73
CoerceDfBounds(args) == CoerceDf(CoerceDf(args, "min_df"), "max_df")

\* lines 64-73: the keyword arguments handed to fe.preprocess
EffectiveArgs(args) ==
    CoerceDfBounds(DropDfWhenHashing(NormalizeNorm(NormalizeUseIdf(args))))

\* fe.preprocess(**args): creates the dataset directory and returns its id
Preprocess(dsid, args, n) == [fs EXCEPT ![dsid] = NewDataset(args["chunk_size"], n)]

\* FeaturesApi.post; n is the number of documents found under the data directory
FeaturesApiPost(args, n) ==
    /\ nextDsid <= MaxDsid
    /\ req' = args
    /\ handed' = EffectiveArgs(args)
    /\ fs' = Preprocess(nextDsid, EffectiveArgs(args), n)
    /\ wpc' = [wpc EXCEPT ![nextDsid] = "idle"]
    /\ nextDsid' = nextDsid + 1
    /\ lastResp' = [op |-> "features_post", code |-> 200, id |-> nextDsid]
    /\ UNCHANGED <<rd, seen200, modelVars>>

\* ====================================================== FeaturesApiElement
\* lines 88-96 with line 90 reporting n_chunks * chunk_size without the min
StatusResponse_NoMin(is_processing, is_finished, n_chunks, out) ==
    IF is_processing /\ ~is_finished
    THEN [code |-> 202,
          data |-> [id |-> out.id, chunk_size |-> out.chunk_size,
                    n_samples |-> out.n_samples,
                    n_samples_processed |-> n_chunks * out.chunk_size]]
    ELSE IF ~is_processing /\ is_finished
    THEN [code |-> 200,
          data |-> [id |-> out.id, chunk_size |-> out.chunk_size,
                    n_samples |-> out.n_samples,
                    n_samples_processed |-> out.n_samples]]
    ELSE [code |-> 520,
          data |-> [message |-> "Processing failed, see server logs!"]]

\* lines 88-96 with line 92 testing is_finished alone
StatusResponse_FinishedOnly(is_processing, is_finished, n_chunks, out) ==
    IF is_processing /\ ~is_finished
    THEN [code |-> 202,
          data |-> [id |-> out.id, chunk_size |-> out.chunk_size,
                    n_samples |-> out.n_samples,
                    n_samples_processed |-> Min(n_chunks * out.chunk_size, out.n_samples)]]
    ELSE IF is_finished
    THEN [code |-> 200,
          data |-> [id |-> out.id, chunk_size |-> out.chunk_size,
                    n_samples |-> out.n_samples,
                    n_samples_processed |-> out.n_samples]]
    ELSE [code |-> 520,
          data |-> [message |-> "Processing failed, see server logs!"]]

\* lines 88-96 with line 93 counting the chunks as line 90 does
StatusResponse_ChunkCount(is_processing, is_finished, n_chunks, out) ==
    IF is_processing /\ ~is_finished
    THEN [code |-> 202,
          data |-> [id |-> out.id, chunk_size |-> out.chunk_size,
                    n_samples |-> out.n_samples,
                    n_samples_processed |-> Min(n_chunks * out.chunk_size, out.n_samples)]]
    ELSE IF ~is_processing /\ is_finished
    THEN [code |-> 200,
          data |-> [id |-> out.id, chunk_size |-> out.chunk_size,
                    n_samples |-> out.n_samples,
                    n_samples_processed |-> n_chunks * out.chunk_size]]
    ELSE [code |-> 520,
          data |-> [message |-> "Processing failed, see server logs!"]]

\* lines 88-96 with the status codes of lines 91 and 94 exchanged
StatusResponse_SwappedCodes(is_processing, is_finished, n_chunks, out) ==
    IF is_processing /\ ~is_finished
    THEN [code |-> 200,
          data |-> [id |-> out.id, chunk_size |-> out.chunk_size,
                    n_samples |-> out.n_samples,
                    n_samples_processed |-> Min(n_chunks * out.chunk_size, out.n_samples)]]
    ELSE IF ~is_processing /\ is_finished
    THEN [code |-> 202,
          data |-> [id |-> out.id, chunk_size |-> out.chunk_size,
                    n_samples |-> out.n_samples,
                    n_samples_processed |-> out.n_samples]]
    ELSE [code |-> 520,
          data |-> [message |-> "Processing failed, see server logs!"]]

\* lines 88-96: the response computed from the values read
StatusResponse(is_processing, is_finished, n_chunks, out) ==
    IF is_processing /\ ~is_finished
    THEN [code |-> 202,
          data |-> [id |-> out.id, chunk_size |-> out.chunk_size,
                    n_samples |-> out.n_samples,
                    n_samples_processed |-> Min(n_chunks * out.chunk_size, out.n_samples)]]
    ELSE IF ~is_processing /\ is_finished
    THEN [code |-> 200,
          data |-> [id |-> out.id, chunk_size |-> out.chunk_size,
                    n_samples |-> out.n_samples,
                    n_samples_processed |-> out.n_samples]]
    ELSE [code |-> 520,
          data |-> [message |-> "Processing failed, see server logs!"]]

\* lines 84-85: the vectorizer resolves the dsid and loads its parameters;
\* an unknown dsid is a NotFound
GetBegin(r, d) ==
    /\ rd[r].pc = "idle"
    /\ IF fs[d].exists
       THEN /\ rd' = [rd EXCEPT ![r] = [pc |-> "l86", dsid |-> d,
                                        is_processing |-> FALSE, is_finished |-> FALSE,
                                        after200 |-> d \in seen200,
                                        in_extraction |-> wpc[d] \in {"chunks", "clear", "done"},
                                        wasDeleted |-> <<"dsid", d>> \in deleted]]
            /\ UNCHANGED lastResp
       ELSE /\ lastResp' = [op |-> "status", code |-> 404, dsid |-> d,
                            after200 |-> d \in seen200, in_extraction |-> FALSE,
                            wasDeleted |-> <<"dsid", d>> \in deleted,
                            data |-> [message |-> "NotFound"]]
            /\ UNCHANGED rd
    /\ UNCHANGED <<fs, wpc, nextDsid, seen200, preprocVars, modelVars>>

\* line 86
GetReadProcessing(r) ==
    /\ rd[r].pc = "l86"
    /\ rd' = [rd EXCEPT ![r].pc = "l87",
                        ![r].is_processing = fs[rd[r].dsid].processing]
    /\ UNCHANGED <<fs, wpc, nextDsid, seen200, lastResp, preprocVars, modelVars>>

\* line 87
GetReadFinished(r) ==
    /\ rd[r].pc = "l87"
    /\ rd' = [rd EXCEPT ![r].pc = "l88",
                        ![r].is_finished = fs[rd[r].dsid].processing_finished]
    /\ UNCHANGED <<fs, wpc, nextDsid, seen200, lastResp, preprocVars, modelVars>>

\* lines 88-96 with a query that removes a stale `processing` marker it met
\* next to `processing_finished`
GetRespond_ClearsStaleMarker(r) ==
    /\ rd[r].pc = "l88"
    /\ LET d == rd[r].dsid
           res == StatusResponse(rd[r].is_processing, rd[r].is_finished,
                                 fs[d].n_chunks, GetParams(d))
       IN /\ lastResp' = [op |-> "status", code |-> res.code, dsid |-> d,
                          after200 |-> rd[r].after200,
                          in_extraction |-> rd[r].in_extraction,
                          wasDeleted |-> rd[r].wasDeleted,
                          data |-> res.data]
          /\ seen200' = IF res.code = 200 THEN seen200 \cup {d} ELSE seen200
          /\ fs' = IF rd[r].is_processing /\ rd[r].is_finished
                   THEN [fs EXCEPT ![d].processing = FALSE]
                   ELSE fs
    /\ rd' = [rd EXCEPT ![r] = IdleReader]
    /\ UNCHANGED <<wpc, nextDsid, preprocVars, modelVars>>

\* lines 88-96: the glob of line 89 reads the chunk artifacts, then the
\* response is returned
GetRespond(r) ==
    /\ rd[r].pc = "l88"
    /\ LET d == rd[r].dsid
           res == StatusResponse(rd[r].is_processing, rd[r].is_finished,
                                 fs[d].n_chunks, GetParams(d))
       IN /\ lastResp' = [op |-> "status", code |-> res.code, dsid |-> d,
                          after200 |-> rd[r].after200,
                          in_extraction |-> rd[r].in_extraction,
                          wasDeleted |-> rd[r].wasDeleted,
                          data |-> res.data]
          /\ seen200' = IF res.code = 200 THEN seen200 \cup {d} ELSE seen200
    /\ rd' = [rd EXCEPT ![r] = IdleReader]
    /\ UNCHANGED <<fs, wpc, nextDsid, preprocVars, modelVars>>

\* FeaturesApiElement.post, lines 98-102: fe.transform() re-materializes the
\* features of a completed extraction; the markers stay as they are
FeaturesApiElementPost(d) ==
    /\ fs[d].exists
    /\ ~fs[d].processing /\ fs[d].processing_finished
    /\ fs' = [fs EXCEPT ![d].compacted = TRUE]
    /\ lastResp' = [op |-> "transform", code |-> 200, id |-> d]
    /\ UNCHANGED <<wpc, nextDsid, rd, seen200, preprocVars, modelVars>>

\* ------------------------------------------- background chunked extraction
\* NotStarted -> Processing: the marker `processing` is set
ExtractionBegin(d) ==
    /\ wpc[d] = "idle"
    /\ fs[d].exists
    /\ fs' = [fs EXCEPT ![d].processing = TRUE]
    /\ wpc' = [wpc EXCEPT ![d] = "chunks"]
    /\ UNCHANGED <<nextDsid, rd, seen200, lastResp, preprocVars, modelVars>>

\* one more numbered chunk artifact is completed
WriteChunk(d) ==
    /\ wpc[d] = "chunks"
    /\ fs[d].n_chunks * fs[d].chunk_size < fs[d].n_samples
    /\ fs' = [fs EXCEPT ![d].n_chunks = @ + 1]
    /\ UNCHANGED <<wpc, nextDsid, rd, seen200, lastResp, preprocVars, modelVars>>

\* Processing -> Finished, first half: `processing_finished` is set after the last chunk
SetFinished(d) ==
    /\ wpc[d] = "chunks"
    /\ fs[d].n_chunks * fs[d].chunk_size >= fs[d].n_samples
    /\ fs' = [fs EXCEPT ![d].processing_finished = TRUE]
    /\ wpc' = [wpc EXCEPT ![d] = "clear"]
    /\ UNCHANGED <<nextDsid, rd, seen200, lastResp, preprocVars, modelVars>>

\* Processing -> Finished, second half: `processing` is cleared
ClearProcessing(d) ==
    /\ wpc[d] = "clear"
    /\ fs' = [fs EXCEPT ![d].processing = FALSE]
    /\ wpc' = [wpc EXCEPT ![d] = "done"]
    /\ UNCHANGED <<nextDsid, rd, seen200, lastResp, preprocVars, modelVars>>

\* the extraction fails: the failure is left in the markers (neither
\* processing nor finished)
ExtractionFail(d) ==
    /\ wpc[d] = "chunks"
    /\ fs' = [fs EXCEPT ![d].processing = FALSE]
    /\ wpc' = [wpc EXCEPT ![d] = "failed"]
    /\ UNCHANGED <<nextDsid, rd, seen200, lastResp, preprocVars, modelVars>>


\* FeaturesApiElement.delete, lines 104-106
FeaturesApiElementDelete(d) ==
    /\ IF fs[d].exists
       THEN /\ fs' = [fs EXCEPT ![d] = NoDataset]
            /\ wpc' = [wpc EXCEPT ![d] = "none"]
            /\ deleted' = deleted \cup {<<"dsid", d>>}
       ELSE UNCHANGED <<fs, wpc, deleted>>
    /\ lastResp' = [op |-> "delete", ns |-> "dsid", id |-> d,
                    code |-> IF fs[d].exists THEN 200 ELSE 404,
                    wasDeleted |-> <<"dsid", d>> \in deleted]
    /\ UNCHANGED <<nextDsid, rd, seen200, preprocVars, models, nextMid, calls>>

\* ================================================================== models
\* Categorizer / Clustering / DuplicateDetection (cache_dir, mid=mid): the
\* model directory is resolved, an unknown mid is a NotFound
Resolve(kind, mid) == models[mid].alive /\ models[mid].kind = kind

\* a handler that resolves the model and reads from it
ElementRead(op, kind, mid) ==
    /\ lastResp' = [op |-> op, ns |-> "mid", id |-> mid,
                    code |-> IF Resolve(kind, mid) THEN 200 ELSE 404,
                    wasDeleted |-> <<"mid", mid>> \in deleted]
    /\ UNCHANGED <<statusVars, preprocVars, modelVars>>

\* a handler that resolves the model and deletes its directory
ElementDelete(kind, mid) ==
    /\ IF Resolve(kind, mid)
       THEN /\ models' = [models EXCEPT ![mid].alive = FALSE]
            /\ deleted' = deleted \cup {<<"mid", mid>>}
       ELSE UNCHANGED <<models, deleted>>
    /\ lastResp' = [op |-> "delete", ns |-> "mid", id |-> mid,
                    code |-> IF Resolve(kind, mid) THEN 200 ELSE 404,
                    wasDeleted |-> <<"mid", mid>> \in deleted]
    /\ UNCHANGED <<statusVars, preprocVars, nextMid, calls>>

\* a handler that resolves the dataset and fits a model under a fresh mid
ElementCreate(kind, dsid) ==
    /\ nextMid <= MaxMid
    /\ IF fs[dsid].exists
       THEN /\ models' = [models EXCEPT ![nextMid] = [kind |-> kind, alive |-> TRUE]]
            /\ nextMid' = nextMid + 1
            /\ lastResp' = [op |-> "create", ns |-> "dsid", id |-> dsid, code |-> 200,
                            wasDeleted |-> <<"dsid", dsid>> \in deleted,
                            data |-> [id |-> nextMid]]
       ELSE /\ lastResp' = [op |-> "create", ns |-> "dsid", id |-> dsid, code |-> 404,
                            wasDeleted |-> <<"dsid", dsid>> \in deleted,
                            data |-> [message |-> "NotFound"]]
            /\ UNCHANGED <<models, nextMid>>
    /\ UNCHANGED <<statusVars, preprocVars, deleted, calls>>

\* ModelsApiElement.get, lines 242-245
ModelsApiElementGet(mid) == ElementRead("get_params", "categorization", mid)

\* lines 247-249 without the call of line 249
ModelsApiElementDelete_NoDelete(mid) ==
    /\ IF Resolve("categorization", mid)
       THEN deleted' = deleted \cup {<<"mid", mid>>}
       ELSE UNCHANGED deleted
    /\ lastResp' = [op |-> "delete", ns |-> "mid", id |-> mid,
                    code |-> IF Resolve("categorization", mid) THEN 200 ELSE 404,
                    wasDeleted |-> <<"mid", mid>> \in deleted]
    /\ UNCHANGED <<statusVars, preprocVars, models, nextMid, calls>>

\* ModelsApiElement.delete, lines 247-249
ModelsApiElementDelete(mid) == ElementDelete("categorization", mid)

\* ModelsApiPredict.get, lines 255-260
ModelsApiPredictGet(mid) == ElementRead("predict", "categorization", mid)

\* ModelsApiTest.post, lines 270-278
ModelsApiTestPost(mid) == ElementRead("test", "categorization", mid)

\* KmeanClusteringApi.post, lines 296-306
KmeanClusteringApiPost(dsid) == ElementCreate("clustering", dsid)

\* ClusteringApiElement.get, lines 389-406
ClusteringApiElementGet(mid) == ElementRead("load", "clustering", mid)

\* ClusteringApiElement.delete, lines 409-411
ClusteringApiElementDelete(mid) == ElementDelete("clustering", mid)

\* DupDetectionApi.post, lines 427-437
DupDetectionApiPost(dsid) == ElementCreate("dupdet", dsid)

\* DupDetectionApiElement.get, lines 450-455
DupDetectionApiElementGet(mid) == ElementRead("query", "dupdet", mid)

\* DupDetectionApiElement.delete, lines 457-461
DupDetectionApiElementDelete(mid) == ElementDelete("dupdet", mid)

\* ---------------------------------------------------------- ModelsApi.post
\* what the caller sends for an optional boolean field
Tristate == {"absent", "false", "true"}

\* wfields.Boolean(missing=True), lines 203-204: an absent field is True
ParseBoolean(sent) == IF sent = "absent" THEN TRUE ELSE sent = "true"

\* values a metric of classification_score takes, in percent
MetricValues == {50, 100}

\* classification_score(X_train, Y_train, X_res, Y_res)
ClassificationScore(q) ==
    [recall |-> q, precision |-> 100, f1 |-> q, auc_roc |-> q, average_precision |-> 100]

\* lines 234-235
SentinelScores ==
    [recall |-> -1, precision |-> -1, f1 |-> -1, auc_roc |-> -1, average_precision |-> -1]

\* line 236
WithId(res, mid) == [k \in (DOMAIN res) \cup {"id"} |-> IF k = "id" THEN mid ELSE res[k]]

\* lines 229-235 with the prediction of line 230 made before the test of line 229
TrainingScores_PredictFirst(training_scores, q) ==
    IF training_scores
    THEN [res |-> ClassificationScore(q), predict |-> 1, score |-> 1]
    ELSE [res |-> SentinelScores, predict |-> 1, score |-> 0]

\* lines 229-235: the scores of the response and the collaborator calls made
TrainingScores(training_scores, q) ==
    IF training_scores
    THEN [res |-> ClassificationScore(q), predict |-> 1, score |-> 1]
    ELSE [res |-> SentinelScores, predict |-> 0, score |-> 0]

\* ModelsApi.post, lines 217-237; sent_ts and sent_cv are the fields
\* training_scores and cv as the caller sent them, q the quality measured
ModelsApiPost(dsid, sent_ts, sent_cv, q) ==
    /\ nextMid <= MaxMid
    /\ LET training_scores == ParseBoolean(sent_ts)
           cv == IF ParseBoolean(sent_cv) THEN "fast" ELSE PyNone
           out == TrainingScores(training_scores, q)
       IN IF fs[dsid].exists
          THEN /\ models' = [models EXCEPT ![nextMid] = [kind |-> "categorization", alive |-> TRUE]]
               /\ nextMid' = nextMid + 1
               /\ calls' = [train |-> 1, predict |-> out.predict, score |-> out.score]
               /\ lastResp' = [op |-> "models_post", ns |-> "dsid", id |-> dsid, code |-> 200,
                               wasDeleted |-> <<"dsid", dsid>> \in deleted,
                               sent |-> sent_ts, cv |-> cv, mid |-> nextMid,
                               data |-> WithId(out.res, nextMid)]
          ELSE /\ lastResp' = [op |-> "models_post", ns |-> "dsid", id |-> dsid, code |-> 404,
                               wasDeleted |-> <<"dsid", dsid>> \in deleted,
                               sent |-> sent_ts, cv |-> cv, mid |-> 0,
                               data |-> [message |-> "NotFound"]]
               /\ calls' = NoCalls
               /\ UNCHANGED <<models, nextMid>>
    /\ UNCHANGED <<statusVars, preprocVars, deleted>>

\* ========================================================== specifications

InitHandlers ==
    /\ rd = [r \in READERS |-> IdleReader]
    /\ seen200 = {}
    /\ lastResp = NoResp
    /\ req = NoArgs
    /\ handed = NoArgs
    /\ models = [m \in MIDS |-> NoModel]
    /\ nextMid = 1
    /\ deleted = {}
    /\ calls = NoCalls

\* the cache directory is empty
Init ==
    /\ fs = [d \in DSIDS |-> NoDataset]
    /\ wpc = [d \in DSIDS |-> "none"]
    /\ nextDsid = 1
    /\ InitHandlers

StatusQuery(r) ==
    \/ \E d \in DSIDS : GetBegin(r, d)
    \/ GetReadProcessing(r)
    \/ GetReadFinished(r)
    \/ GetRespond(r)

Extraction ==
    \E d \in DSIDS :
        \/ ExtractionBegin(d)
        \/ WriteChunk(d)
        \/ SetFinished(d)
        \/ ClearProcessing(d)
        \/ ExtractionFail(d)

\* extraction life cycle: datasets are created, extracted in the
\* background, polled by a client and re-materialized
Next ==
    \/ \E a \in ExtractionRequests : FeaturesApiPost(a, MaxSamples)
    \/ Extraction
    \/ StatusQuery(1)
    \/ \E d \in DSIDS : FeaturesApiElementPost(d)

Spec == Init /\ [][Next]_vars

\* ---- status queries alone, over every content of a dataset directory
DatasetStates ==
    { [exists |-> TRUE, processing |-> p, processing_finished |-> f, n_chunks |-> c,
       chunk_size |-> cs, n_samples |-> n, compacted |-> FALSE] :
        p \in BOOLEAN, f \in BOOLEAN, c \in 0..MaxChunks,
        cs \in 1..MaxChunkSize, n \in 1..MaxSamples }

\* chunk counts the extraction can leave behind: no chunk beyond the last sample
WrittenStates == { s \in DatasetStates : s.n_chunks = 0 \/ (s.n_chunks - 1) * s.chunk_size < s.n_samples }

FinishedDataset == [exists |-> TRUE, processing |-> FALSE, processing_finished |-> TRUE,
                    n_chunks |-> 1, chunk_size |-> 1, n_samples |-> 1, compacted |-> FALSE]

InitStatus ==
    /\ \E s \in WrittenStates : fs = [d \in DSIDS |-> IF d = 1 THEN s ELSE FinishedDataset]
    /\ wpc = [d \in DSIDS |-> "none"]
    /\ nextDsid = MaxDsid + 1
    /\ InitHandlers

\* concurrent queries on the dataset whose directory is drawn
NextStatus ==
    \E r \in READERS :
        GetBegin(r, 1) \/ GetReadProcessing(r) \/ GetReadFinished(r) \/ GetRespond(r)

SpecStatus == InitStatus /\ [][NextStatus]_vars

\* ---- extraction requests alone, over every combination of arguments
NextPreprocess == \E a \in Requests : FeaturesApiPost(a, 1)

SpecPreprocess == Init /\ [][NextPreprocess]_vars

\* ---- the model registry: datasets are extracted, models are fitted,
\* read and deleted, and a client polls the status of the first dataset
InitModels ==
    /\ fs = [d \in DSIDS |-> FinishedDataset]
    /\ wpc = [d \in DSIDS |-> "done"]
    /\ nextDsid = MaxDsid + 1
    /\ InitHandlers

NextModels ==
    \/ \E d \in DSIDS : ModelsApiPost(d, "false", "false", 100)
    \/ \E d \in DSIDS : KmeanClusteringApiPost(d)
    \/ \E d \in DSIDS : DupDetectionApiPost(d)
    \/ \E d \in DSIDS : FeaturesApiElementDelete(d)
    \/ GetBegin(1, 1) \/ GetReadProcessing(1) \/ GetReadFinished(1) \/ GetRespond(1)
    \/ \E m \in MIDS :
          \/ ModelsApiElementGet(m)
          \/ ModelsApiPredictGet(m)
          \/ ModelsApiTestPost(m)
          \/ ModelsApiElementDelete(m)
          \/ ClusteringApiElementGet(m)
          \/ ClusteringApiElementDelete(m)
          \/ DupDetectionApiElementGet(m)
          \/ DupDetectionApiElementDelete(m)

SpecModels == InitModels /\ [][NextModels]_vars

\* ---- categorization training alone, over every combination of arguments
NextTraining ==
    \/ \E d \in DSIDS, ts \in Tristate, cv \in Tristate, q \in MetricValues :
            ModelsApiPost(d, ts, cv, q)
    \/ \E d \in DSIDS : FeaturesApiElementDelete(d)

SpecTraining == InitModels /\ [][NextTraining]_vars

\* ================================================================== claims
Answered == lastResp.op = "status" /\ lastResp.code # 404
Dir == fs[lastResp.dsid]

\* C1: while `processing` is present and `processing_finished` absent, the
\* status query answers 202 with n_samples_processed = min(n_chunks *
\* chunk_size, n_samples), which never exceeds n_samples.
C1_ProcessedIsMin ==
    (Answered /\ Dir.processing /\ ~Dir.processing_finished) =>
        /\ lastResp.code = 202
        /\ lastResp.data.n_samples_processed = Min(Dir.n_chunks * Dir.chunk_size, Dir.n_samples)
        /\ lastResp.data.n_samples_processed <= Dir.n_samples

C1_Witness ==
    /\ Answered /\ Dir.processing /\ ~Dir.processing_finished
    /\ Dir.n_chunks * Dir.chunk_size > Dir.n_samples
    /\ lastResp.data.n_samples_processed = Dir.n_samples

\* C3: with both markers absent or both present the status query answers
\* 520, a response without a processed count and different from 202 and 200.
C3_InconsistentMarkersFail ==
    (Answered /\ Dir.processing = Dir.processing_finished) =>
        /\ lastResp.code = 520
        /\ lastResp.code \notin {200, 202}
        /\ "n_samples_processed" \notin DOMAIN lastResp.data

C3_Witness ==
    /\ Answered /\ Dir.processing /\ Dir.processing_finished
    /\ Dir.n_chunks > 0
    /\ lastResp.code = 520

\* C4: with `processing_finished` present and `processing` absent the status
\* query answers 200 with n_samples_processed = n_samples, whatever the
\* chunk count and chunk size are.
C4_FinishedReportsTotal ==
    (Answered /\ ~Dir.processing /\ Dir.processing_finished) =>
        /\ lastResp.code = 200
        /\ lastResp.data.n_samples_processed = Dir.n_samples

C4_Witness ==
    /\ Answered /\ ~Dir.processing /\ Dir.processing_finished
    /\ Dir.n_chunks * Dir.chunk_size > Dir.n_samples
    /\ lastResp.code = 200
    /\ lastResp.data.n_samples_processed = Dir.n_samples

\* C9: a status query is read-only: no step of it changes a marker, a chunk
\* artifact or a stored parameter, and every query, however it interleaves
\* with other queries, returns what a query run alone on that state returns.
C9_StatusReadOnly ==
    [][ /\ fs' = fs
        /\ \A r \in READERS :
             (rd[r].pc = "l88" /\ rd'[r].pc = "idle") =>
                LET d == rd[r].dsid
                    alone == StatusResponse(fs[d].processing, fs[d].processing_finished,
                                            fs[d].n_chunks, GetParams(d))
                IN /\ lastResp'.code = alone.code
                   /\ lastResp'.data = alone.data ]_vars

C9_Witness ==
    /\ lastResp.op = "status" /\ lastResp.dsid = 1
    /\ rd[1].pc = "l87" /\ rd[1].dsid = 1
    /\ rd[2].pc = "l88" /\ rd[2].dsid = 1

C10_NoFailureForGoodExtraction ==
    (lastResp.op = "status" /\ lastResp.in_extraction /\ wpc[lastResp.dsid] # "failed") =>
        lastResp.code \in {200, 202}

Posted == lastResp.op = "features_post"

\* C5 as stated: a min_df/max_df <= 1 reaches the vectorizer unchanged and
\* every value > 1 reaches it as an integer.
C5_AboveOneIsInteger ==
    Posted => \A key \in DfKeys \cap DOMAIN handed :
                /\ req[key].fx <= ONE => handed[key] = req[key]
                /\ req[key].fx > ONE => handed[key].type = "int"

\* C5 amended: a min_df/max_df <= 1 + EPSILON reaches the vectorizer
\* unchanged, and every value > 1 + EPSILON reaches it truncated to an integer.
C5_AboveOnePlusEpsilonIsInteger ==
    Posted => \A key \in DfKeys \cap DOMAIN handed :
                /\ req[key].fx <= ONE + EPSILON => handed[key] = req[key]
                /\ req[key].fx > ONE + EPSILON =>
                      /\ handed[key].type = "int"
                      /\ handed[key].fx = (req[key].fx \div ONE) * ONE

C5_Witness ==
    /\ Posted
    /\ "min_df" \in DOMAIN handed /\ "max_df" \in DOMAIN handed
    /\ req["min_df"].fx = ONE + (EPSILON \div 2) /\ handed["min_df"] = req["min_df"]
    /\ req["max_df"].fx = ONE + (ONE \div 2) /\ handed["max_df"] = PyInt(1)

\* C6: with use_hashing the arguments handed to preprocess have no min_df
\* and no max_df key and every other key of the request, and the request is
\* served; without hashing all keys of the request are handed on.
C6_HashingDropsDfBounds ==
    Posted =>
        /\ lastResp.code = 200
        /\ req["use_hashing"] => DOMAIN handed = (DOMAIN req) \ DfKeys
        /\ ~req["use_hashing"] => DOMAIN handed = DOMAIN req

C6_Witness ==
    /\ Posted
    /\ req["use_hashing"]
    /\ DfKeys \subseteq DOMAIN req
    /\ req["max_df"].fx = 50 * ONE
    /\ DOMAIN handed = BaseKeys


Trained == lastResp.op = "models_post" /\ lastResp.code = 200
MetricFields == {"recall", "precision", "f1", "auc_roc", "average_precision"}

\* C8 as stated: categorization training computes the training-set metrics
\* only on an explicit request; without it nothing is predicted or scored
\* and the five metric fields are -1, next to the new model id.
C8_ScoresOnlyOnRequest ==
    Trained =>
        /\ DOMAIN lastResp.data = MetricFields \cup {"id"}
        /\ lastResp.data["id"] = lastResp.mid
        /\ (calls.predict > 0 \/ calls.score > 0) => lastResp.sent = "true"
        /\ lastResp.sent # "true" =>
              /\ calls.predict = 0 /\ calls.score = 0
              /\ \A k \in MetricFields : lastResp.data[k] = -1

\* C8 amended: the metrics are computed unless training_scores was sent as
\* false (an absent field defaults to true); when it is false nothing is
\* predicted or scored and the five metric fields are -1, next to the new
\* model id; the response has the same fields in both cases.
C8_ScoresUnlessDisabled ==
    Trained =>
        /\ DOMAIN lastResp.data = MetricFields \cup {"id"}
        /\ lastResp.data["id"] = lastResp.mid
        /\ (calls.predict > 0 \/ calls.score > 0) <=> lastResp.sent # "false"
        /\ lastResp.sent = "false" =>
              /\ calls.predict = 0 /\ calls.score = 0
              /\ \A k \in MetricFields : lastResp.data[k] = -1

C8_Witness ==
    /\ Trained
    /\ lastResp.sent = "false"
    /\ calls.train = 1 /\ calls.predict = 0
    /\ lastResp.data["auc_roc"] = -1
    /\ models[lastResp.data["id"]].alive

ElementOps == {"get_params", "predict", "test", "load", "query", "delete",
               "create", "models_post", "status"}

Present(p) == IF p[1] = "dsid" THEN fs[p[2]].exists ELSE models[p[2]].alive

====
